---- MODULE Spec2Model ----
(***************************************************************************)
(* Model of mcp_Server.py: seven tools over one sandbox directory          *)
(* (TARGET_FOLDER) and the SQLite files in it.                             *)
(*                                                                         *)
(* A string is a sequence of one-character strings.  A path is a sequence  *)
(* of components, each a string; str(path) joins them with "/".            *)
(* The characters CR and LF stand for "\r" and "\n".                       *)
(***************************************************************************)
EXTENDS Integers, Sequences, FiniteSets, TLC

VARIABLES fs, links, filenames, conns, last, chain

vars == <<fs, links, filenames, conns, last, chain>>

(* ---------------------------------------------------------------------- *)
(* Bounds                                                                  *)
(* ---------------------------------------------------------------------- *)
MaxFile == 2    \* longest text a file holds, in characters

(* ---------------------------------------------------------------------- *)
(* Strings                                                                 *)
(* ---------------------------------------------------------------------- *)
CR == "CR"
LF == "LF"
NoPath == <<>>         \* placeholder where no path was produced

StartsWith(s, t) == Len(t) <= Len(s) /\ SubSeq(s, 1, Len(t)) = t

EndsWith(s, t) ==
    Len(t) <= Len(s) /\ SubSeq(s, Len(s) - Len(t) + 1, Len(s)) = t

\* the largest index of character c in s, 0 when there is none (str.rfind + 1)
RFind(s, c) ==
    LET hits == {i \in 1..Len(s) : s[i] = c}
    IN  IF hits = {} THEN 0 ELSE CHOOSE i \in hits : \A j \in hits : j <= i

LowerChar(c) ==
    CASE c = "A" -> "a"
      [] c = "B" -> "b"
      [] c = "D" -> "d"
      [] c = "F" -> "f"
      [] c = "P" -> "p"
      [] OTHER -> c

Lower(s) == [i \in 1..Len(s) |-> LowerChar(s[i])]

\* os.path.basename: what follows the last "/"
Basename(s) == SubSeq(s, RFind(s, "/") + 1, Len(s))

(* ---------------------------------------------------------------------- *)
(* Paths and the filesystem                                                *)
(* ---------------------------------------------------------------------- *)
TARGET_FOLDER == << <<"w">> >>                  \* /w
SiblingDir    == << <<"w", "2">> >>             \* /w2, a sibling of the sandbox
SiblingFile   == << <<"w", "2">>, <<"s">> >>    \* /w2/s
OtherDir      == << <<"e">> >>                  \* /e
OtherFile     == << <<"e">>, <<"p">> >>         \* /e/p

Dirs == {<<>>, TARGET_FOLDER, SiblingDir, OtherDir}

RECURSIVE PathStr(_)
PathStr(p) ==
    IF p = <<>> THEN <<>>
    ELSE PathStr(SubSeq(p, 1, Len(p) - 1)) \o <<"/">> \o p[Len(p)]

\* Path.__truediv__: joining the empty name gives the directory itself
Join(dir, name) == IF name = <<>> THEN dir ELSE Append(dir, name)

\* lexical part of Path.resolve: "." is dropped, ".." removes its parent
RECURSIVE Normalize(_)
Normalize(p) ==
    IF p = <<>> THEN <<>>
    ELSE LET front == Normalize(SubSeq(p, 1, Len(p) - 1))
             c     == p[Len(p)]
         IN  IF c = <<".">> THEN front
             ELSE IF c = <<".", ".">>
                  THEN SubSeq(front, 1, IF front = <<>> THEN 0 ELSE Len(front) - 1)
                  ELSE Append(front, c)

\* Path.resolve: normalise, then follow a symbolic link to its target
Resolve(p) ==
    LET n == Normalize(p)
    IN  IF n \in DOMAIN links THEN links[n] ELSE n

Exists(p) == p \in Dirs \/ p \in DOMAIN fs

IsDir(p) == p \in Dirs

\* Path.suffix of the final component
Suffix(p) ==
    IF p = <<>> THEN <<>>
    ELSE LET name == p[Len(p)]
             i    == RFind(name, ".")
         IN  IF 1 < i /\ i < Len(name) THEN SubSeq(name, i, Len(name)) ELSE <<>>

(* ---------------------------------------------------------------------- *)
(* File contents                                                           *)
(* ---------------------------------------------------------------------- *)
\* bytes that decode as UTF-8; the empty file is also an empty database
Text(s) == [k |-> "text", s |-> s, ids |-> <<>>]
\* a SQLite file holding table t(id INT UNIQUE) with these ids, in rowid order
Db(ids) == [k |-> "db", s |-> <<>>, ids |-> ids]
\* bytes that are neither UTF-8 text nor a database (a PDF document)
Bin == [k |-> "bin", s |-> <<>>, ids |-> <<>>]

Empty == Text(<<>>)

(* ---------------------------------------------------------------------- *)
(* Outcomes                                                                *)
(* ---------------------------------------------------------------------- *)
Outcome(kind, class, text, nums, names) ==
    [kind |-> kind, class |-> class, text |-> text, nums |-> nums, names |-> names]

Return(class) == Outcome("return", class, <<>>, <<>>, {})
ReturnText(class, text) == Outcome("return", class, text, <<>>, {})
ReturnNums(class, nums) == Outcome("return", class, <<>>, nums, {})
ReturnNames(class, names) == Outcome("return", class, <<>>, <<>>, names)
Raise(class) == Outcome("raise", class, <<>>, <<>>, {})

\* the handler missing: the fault goes on to the caller
Unhandled(out, class) == out

\* except Exception as e: return f"<prefix>{str(e)}"
ExceptException(out, class) ==
    IF out.kind = "raise" THEN ReturnText(class, <<out.class>>) ELSE out

(* ---------------------------------------------------------------------- *)
(* _get_safe_path                                                          *)
(* ---------------------------------------------------------------------- *)
SafePath(ok, path) == [ok |-> ok, path |-> path]

_get_safe_path(filename) ==
    LET safe_name == Basename(filename)
        full_path == Resolve(Join(TARGET_FOLDER, safe_name))
    IN  IF ~StartsWith(PathStr(full_path), PathStr(TARGET_FOLDER))
        THEN SafePath(FALSE, NoPath)
        ELSE SafePath(TRUE, full_path)

(* ---------------------------------------------------------------------- *)
(* Text-mode translation of open(..., encoding="utf-8")                    *)
(* ---------------------------------------------------------------------- *)
linesep == <<LF>>      \* os.linesep of the POSIX host the server runs on

\* writing with newline=None: every "\n" becomes os.linesep
RECURSIVE TranslateOut(_)
TranslateOut(s) ==
    IF s = <<>> THEN <<>>
    ELSE (IF Head(s) = LF THEN linesep ELSE <<Head(s)>>) \o TranslateOut(Tail(s))

\* reading with newline=None (universal newlines): "\r\n" and "\r" become "\n"
RECURSIVE TranslateIn(_)
TranslateIn(s) ==
    IF s = <<>> THEN <<>>
    ELSE IF Head(s) = CR
         THEN IF Len(s) >= 2 /\ s[2] = LF
              THEN <<LF>> \o TranslateIn(Tail(Tail(s)))
              ELSE <<LF>> \o TranslateIn(Tail(s))
         ELSE <<Head(s)>> \o TranslateIn(Tail(s))

(* ---------------------------------------------------------------------- *)
(* Effects of a tool body: the filesystem and connections it leaves, the   *)
(* path it operated on, and how it ended                                   *)
(* ---------------------------------------------------------------------- *)
Effect(f, c, touched, path, out) ==
    [fs |-> f, conns |-> c, opened |-> FALSE, touched |-> touched, path |-> path,
     out |-> out]

\* the same effect of a body that got a connection from sqlite3.connect
Opened(e) == [e EXCEPT !.opened = TRUE]

\* the connections a body has opened and not closed
NoConns == {}

\* the tool's outermost except clause
Catch(e, class) == [e EXCEPT !.out = ExceptException(@, class)]

Denied(filename) == Effect(fs, NoConns, FALSE, NoPath, Raise("AccessDenied"))

(* ---------------------------------------------------------------------- *)
(* File system tools                                                       *)
(* ---------------------------------------------------------------------- *)
\* names that iterdir() yields and is_file() accepts (is_file follows links)
ListedFiles ==
    {p[Len(p)] : p \in {q \in DOMAIN fs : SubSeq(q, 1, Len(q) - 1) = TARGET_FOLDER}}
    \cup {p[Len(p)] : p \in {q \in DOMAIN links : links[q] \in DOMAIN fs}}

list_files ==
    LET files == ListedFiles
    IN  Catch(Effect(fs, NoConns, TRUE, TARGET_FOLDER,
                     IF files = {} THEN Return("WorkspaceEmpty")
                     ELSE ReturnNames("FilesAvailable", files)),
              "ListError")

_read_pdf(path, installed) ==
    IF ~installed THEN Return("PdfNotInstalled")
    ELSE IF fs[path].k = "bin" THEN Return("PdfText")
    ELSE Return("PdfError")

_read_docx(path, installed) ==
    IF ~installed THEN Return("DocxNotInstalled")
    ELSE Return("DocxError")

\* open(file_path, "r", encoding="utf-8").read()
OpenRead(path) ==
    IF IsDir(path) THEN Raise("IsADirectoryError")
    ELSE IF fs[path].k = "text" THEN ReturnText("Content", TranslateIn(fs[path].s))
    ELSE Return("BinaryDetected")

read_file(filename, installed) ==
    LET sp == _get_safe_path(filename)
        body ==
            IF ~sp.ok THEN Denied(filename)
            ELSE IF ~Exists(sp.path)
                 THEN Effect(fs, NoConns, TRUE, sp.path, Return("NotFound"))
            ELSE LET suffix == Lower(Suffix(sp.path))
                 IN  Effect(fs, NoConns, TRUE, sp.path,
                            IF suffix = <<".", "p", "d", "f">>
                            THEN _read_pdf(sp.path, installed)
                            ELSE IF suffix = <<".", "d", "o", "c", "x">>
                            THEN _read_docx(sp.path, installed)
                            ELSE OpenRead(sp.path))
    IN  Catch(body, "Error")

GuardedSuffixes ==
    { <<".", "p", "d", "f">>, <<".", "d", "o", "c", "x">>,
      <<".", "d", "b">>, <<".", "s", "q", "l", "i", "t", "e">> }

\* the bytes the file holds after open(file_path, write_mode).write(content)
Written(path, content, write_mode) ==
    LET out == TranslateOut(content)
    IN  IF write_mode = "a" /\ path \in DOMAIN fs
        THEN IF fs[path].k = "text" THEN Text(fs[path].s \o out) ELSE fs[path]
        ELSE Text(out)

\* the guard applied to the name alone, whether or not the file exists
write_to_file_strict(filename, content, mode) ==
    LET sp == _get_safe_path(filename)
        body ==
            IF ~sp.ok THEN Denied(filename)
            ELSE IF Lower(Suffix(sp.path)) \in GuardedSuffixes
                 THEN Effect(fs, NoConns, TRUE, sp.path, Return("UnsupportedWrite"))
            ELSE IF IsDir(sp.path)
                 THEN Effect(fs, NoConns, TRUE, sp.path, Raise("IsADirectoryError"))
            ELSE Effect((sp.path :> Written(sp.path, content, mode)) @@ fs,
                        NoConns, TRUE, sp.path, Return("Wrote"))
    IN  Catch(body, "Error")

write_to_file(filename, content, mode) ==
    LET sp == _get_safe_path(filename)
        body ==
            IF ~sp.ok THEN Denied(filename)
            ELSE IF Exists(sp.path) /\ Lower(Suffix(sp.path)) \in GuardedSuffixes
                 THEN Effect(fs, NoConns, TRUE, sp.path, Return("UnsupportedWrite"))
            ELSE LET write_mode == IF mode = "a" THEN "a" ELSE "w"
                 IN  IF IsDir(sp.path)
                     THEN Effect(fs, NoConns, TRUE, sp.path, Raise("IsADirectoryError"))
                     ELSE Effect((sp.path :> Written(sp.path, content, write_mode)) @@ fs,
                                 NoConns, TRUE, sp.path, Return("Wrote"))
    IN  Catch(body, "Error")

Remove(path) == [q \in DOMAIN fs \ {path} |-> fs[q]]

\* a missing file counted as deleted
delete_file_force(filename) ==
    LET sp == _get_safe_path(filename)
        body ==
            IF ~sp.ok THEN Denied(filename)
            ELSE IF IsDir(sp.path)
                 THEN Effect(fs, NoConns, TRUE, sp.path, Raise("IsADirectoryError"))
            ELSE Effect(Remove(sp.path), NoConns, TRUE, sp.path, Return("Deleted"))
    IN  Catch(body, "DeleteError")

delete_file(filename) ==
    LET sp == _get_safe_path(filename)
        body ==
            IF ~sp.ok THEN Denied(filename)
            ELSE IF ~Exists(sp.path)
                 THEN Effect(fs, NoConns, TRUE, sp.path, Return("NotFound"))
            ELSE IF IsDir(sp.path)
                 THEN Effect(fs, NoConns, TRUE, sp.path, Raise("IsADirectoryError"))
            ELSE Effect(Remove(sp.path), NoConns, TRUE, sp.path, Return("Deleted"))
    IN  Catch(body, "DeleteError")

(* ---------------------------------------------------------------------- *)
(* The SQLite engine, as the tools drive it                                *)
(* ---------------------------------------------------------------------- *)
Range(q) == {q[i] : i \in 1..Len(q)}

Query(verb, args) == [verb |-> verb, args |-> args]

\* sqlite3.connect(file_path): a directory cannot be opened; a missing file
\* is created empty
ConnectFails(path) == IsDir(path)

Connected(path) == IF path \in DOMAIN fs THEN fs ELSE (path :> Empty) @@ fs

\* what the engine takes for a database: one it wrote, or a file of at most
\* one byte, which it reads as a database with no tables yet
IsDatabase(content) ==
    content.k = "db" \/ (content.k = "text" /\ Len(content.s) <= 1)

HasTable(content) == content.k = "db"

\* busy: the statement writes and still has rows to hand out
Executed(ok, class, pending, description, rows, changes, busy) ==
    [ok |-> ok, class |-> class, pending |-> pending,
     description |-> description, rows |-> rows, changes |-> changes,
     busy |-> busy]

Failed(class, pending) == Executed(FALSE, class, pending, FALSE, <<>>, 0, FALSE)

\* INSERT OR FAIL of several rows: the rows before the conflicting one stay
\* in the open transaction when the statement raises
RECURSIVE InsertOrFail(_, _, _)
InsertOrFail(content, values, done) ==
    IF values = <<>>
    THEN Executed(TRUE, "ok", content, FALSE, <<>>, done, FALSE)
    ELSE IF Head(values) \in Range(content.ids)
         THEN Failed("IntegrityError", content)
         ELSE InsertOrFail(Db(Append(content.ids, Head(values))), Tail(values), done + 1)

\* cursor.execute(query) on a fresh connection to a file with this content
Execute(content, query) ==
    CASE query.verb = "SELECT 1" ->
            Executed(TRUE, "ok", content, TRUE, <<1>>, 0, FALSE)
      [] query.verb = "SELEC" ->
            Failed("SyntaxError", content)
      [] OTHER ->
            IF ~IsDatabase(content) THEN Failed("NotADatabase", content)
            ELSE IF query.verb = "CREATE TABLE t"
                 THEN IF HasTable(content) THEN Failed("TableExists", content)
                      ELSE Executed(TRUE, "ok", Db(<<>>), FALSE, <<>>, 0, FALSE)
            ELSE IF ~HasTable(content) THEN Failed("NoSuchTable", content)
            ELSE IF query.verb = "SELECT id FROM t"
                 THEN Executed(TRUE, "ok", content, TRUE, content.ids, 0, FALSE)
            ELSE IF query.verb = "DELETE FROM t"
                 THEN Executed(TRUE, "ok", Db(<<>>), FALSE, <<>>, Len(content.ids),
                               FALSE)
            ELSE IF query.verb = "INSERT RETURNING"
                 THEN IF Head(query.args) \in Range(content.ids)
                      THEN Failed("IntegrityError", content)
                      ELSE Executed(TRUE, "ok", Db(content.ids \o query.args), TRUE,
                                    query.args, Len(query.args), TRUE)
            ELSE InsertOrFail(content, query.args, 0)

\* conn.commit() raises while a writing statement is still in progress
CommitFails(ex) == ex.busy

\* conn.commit(): the transaction's changes reach the file
Commit(f, path, ex) == [f EXCEPT ![path] = ex.pending]

\* conn.close() without a commit: the open transaction is rolled back
CloseUncommitted(f, path, ex) == f

(* ---------------------------------------------------------------------- *)
(* Database tools                                                          *)
(* ---------------------------------------------------------------------- *)
DbSuffix(filename) ==
    EndsWith(filename, <<".", "d", "b">>)
    \/ EndsWith(filename, <<".", "s", "q", "l", "i", "t", "e">>)

\* get-or-create: an existing target is opened again
create_sql_db_reopen(filename) ==
    IF ~DbSuffix(filename)
    THEN Effect(fs, NoConns, FALSE, NoPath, Return("BadExtension"))
    ELSE LET sp == _get_safe_path(filename)
             body ==
                 IF ~sp.ok THEN Denied(filename)
                 ELSE IF ConnectFails(sp.path)
                      THEN Effect(fs, NoConns, TRUE, sp.path, Raise("OperationalError"))
                 ELSE Opened(Effect(Connected(sp.path), NoConns, TRUE, sp.path,
                                    Return("Created")))
         IN  Catch(body, "CreateError")

create_sql_db(filename) ==
    IF ~DbSuffix(filename)
    THEN Effect(fs, NoConns, FALSE, NoPath, Return("BadExtension"))
    ELSE LET sp == _get_safe_path(filename)
             body ==
                 IF ~sp.ok THEN Denied(filename)
                 ELSE IF Exists(sp.path)
                      THEN Effect(fs, NoConns, TRUE, sp.path, Return("AlreadyExists"))
                 ELSE IF ConnectFails(sp.path)
                      THEN Effect(fs, NoConns, TRUE, sp.path, Raise("OperationalError"))
                 ELSE Opened(Effect(Connected(sp.path), NoConns, TRUE, sp.path,
                                    Return("Created")))
         IN  Catch(body, "CreateError")

\* a connection the handler returns without closing stays open unless the
\* runtime finalises the object as the frame is dropped
Abandon(path, reclaimed) == IF reclaimed THEN NoConns ELSE {path}

inspect_sql_db(filename, reclaimed) ==
    LET sp == _get_safe_path(filename)
        body ==
            IF ~sp.ok THEN Denied(filename)
            ELSE IF ~Exists(sp.path)
                 THEN Effect(fs, NoConns, TRUE, sp.path, Return("DbNotFound"))
            ELSE IF ConnectFails(sp.path)
                 THEN Effect(fs, NoConns, TRUE, sp.path, Raise("OperationalError"))
            ELSE LET content == fs[sp.path]
                 IN  Opened(
                       IF ~IsDatabase(content)
                       THEN Effect(fs, Abandon(sp.path, reclaimed), TRUE, sp.path,
                                   Raise("NotADatabase"))
                       ELSE IF ~HasTable(content)
                       THEN Effect(fs, NoConns, TRUE, sp.path, Return("DbEmpty"))
                       ELSE Effect(fs, NoConns, TRUE, sp.path,
                                   ReturnNames("Schema", {<<"t">>})))
    IN  Catch(body, "Error")

\* the try block once the commit is through: shape the result
QuerySucceeded(f, path, ex) ==
    Effect(Commit(f, path, ex), NoConns, TRUE, path,
           IF ex.description
           THEN IF ex.rows = <<>> THEN Return("NoResults")
                ELSE ReturnNums("Rows", ex.rows)
           ELSE ReturnNums("RowsAffected", <<ex.changes>>))

\* the failed statement's transaction committed before the close
QueryFailedCommitted(f, path, ex) ==
    Effect([f EXCEPT ![path] = ex.pending], NoConns, TRUE, path,
           ReturnText("QueryError", <<ex.class>>))

\* its except clause, for a fault of cursor.execute or of conn.commit: close,
\* then report
QueryFailed(f, path, ex) ==
    Effect(CloseUncommitted(f, path, ex), NoConns, TRUE, path,
           ReturnText("QueryError", <<ex.class>>))

\* with the existence check inspect_sql_db makes
run_sql_query_checked(filename, query) ==
    LET sp == _get_safe_path(filename)
        body ==
            IF ~sp.ok THEN Denied(filename)
            ELSE IF ~Exists(sp.path)
                 THEN Effect(fs, NoConns, TRUE, sp.path, Return("DbNotFound"))
            ELSE IF ConnectFails(sp.path)
                 THEN Effect(fs, NoConns, TRUE, sp.path, Raise("OperationalError"))
            ELSE LET ex == Execute(fs[sp.path], query)
                 IN  Opened(IF ~ex.ok THEN QueryFailed(fs, sp.path, ex)
                            ELSE IF CommitFails(ex)
                            THEN QueryFailed(fs, sp.path,
                                             Failed("OperationalError", ex.pending))
                            ELSE QuerySucceeded(fs, sp.path, ex))
    IN  Catch(body, "SystemError")

run_sql_query(filename, query) ==
    LET sp == _get_safe_path(filename)
        body ==
            IF ~sp.ok THEN Denied(filename)
            ELSE IF ConnectFails(sp.path)
                 THEN Effect(fs, NoConns, TRUE, sp.path, Raise("OperationalError"))
            ELSE LET f1 == Connected(sp.path)
                     ex == Execute(f1[sp.path], query)
                 IN  Opened(IF ~ex.ok THEN QueryFailed(f1, sp.path, ex)
                            ELSE IF CommitFails(ex)
                            THEN QueryFailed(f1, sp.path,
                                             Failed("OperationalError", ex.pending))
                            ELSE QuerySucceeded(f1, sp.path, ex))
    IN  Catch(body, "SystemError")

(* ---------------------------------------------------------------------- *)
(* Inputs                                                                  *)
(* ---------------------------------------------------------------------- *)
N_trav   == <<".", ".", "/", "e", "/", "p">>    \* ../e/p
N_abs    == <<"/", "e", "/", "p">>              \* /e/p
N_db     == <<"x", ".", "d", "b">>              \* x.db
N_pdf    == <<"A", ".", "P", "D", "F">>         \* A.PDF
N_up     == <<".", ".">>                        \* ..
N_empty  == <<>>                                \* the empty name
N_k      == <<"k">>                             \* a link to /w2/s
N_l      == <<"l", ".", "d", "b">>              \* a link to /e/p

Contents == { <<"x">>, <<CR>> }

Modes == {"w", "a"}

Queries ==
    { Query("SELECT 1", <<>>),
      Query("SELEC", <<>>),
      Query("CREATE TABLE t", <<>>),           \* CREATE TABLE t(id INT UNIQUE)
      Query("SELECT id FROM t", <<>>),
      Query("DELETE FROM t", <<>>),
      Query("INSERT", <<2>>),                  \* INSERT INTO t VALUES (2)
      Query("INSERT", <<1, 2>>),               \* INSERT OR FAIL INTO t VALUES (1),(2)
      Query("INSERT RETURNING", <<1>>) }       \* INSERT INTO t VALUES (1) RETURNING id

PdfFile == Append(TARGET_FOLDER, N_pdf)

SandboxLinks ==
    (Append(TARGET_FOLDER, N_k) :> SiblingFile)
    @@ (Append(TARGET_FOLDER, N_l) :> OtherFile)

NoLinks == [q \in {} |-> q]

Outside == (OtherFile :> Text(<<"x">>)) @@ (SiblingFile :> Text(<<"x">>))

\* A run's sandbox as the server finds it, and the filenames its caller uses
Scenario(f, l, n) == [fs |-> f, links |-> l, names |-> n]

Scenarios ==
    { Scenario(Outside, NoLinks, {N_trav, N_db, N_up, N_empty}),
      Scenario((PdfFile :> Bin) @@ Outside, NoLinks, {N_pdf, N_abs}),
      Scenario(Outside, SandboxLinks, {N_k, N_l, N_db}) }

NoQuery == Query("", <<>>)

Request(op, name, content, mode, query) ==
    [op |-> op, name |-> name, content |-> content, mode |-> mode, query |-> query]

\* whether the name's resolved target exists
TargetExists(filename) ==
    LET sp == _get_safe_path(filename) IN sp.ok /\ Exists(sp.path)

\* what is recorded of an invocation: the request, whether its target existed
\* when it began, and the effect's path, connection and outcome
Invocation(req, e) ==
    [op |-> req.op, name |-> req.name, content |-> req.content, mode |-> req.mode,
     query |-> req.query, existed |-> TargetExists(req.name),
     opened |-> e.opened, touched |-> e.touched, path |-> e.path, out |-> e.out]

(* ---------------------------------------------------------------------- *)
(* The state machine                                                       *)
(* ---------------------------------------------------------------------- *)
NoChain == [on |-> FALSE, name |-> <<>>, text |-> <<>>]

Init ==
    /\ \E sc \in Scenarios :
          /\ fs = sc.fs
          /\ links = sc.links
          /\ filenames = sc.names
    /\ conns = {}
    /\ last = [op |-> "start", name |-> <<>>, content |-> <<>>, mode |-> "",
               query |-> NoQuery, existed |-> FALSE, opened |-> FALSE,
               touched |-> FALSE, path |-> NoPath, out |-> Return("none")]
    /\ chain = NoChain

Apply(req, e) ==
    /\ fs' = e.fs
    /\ conns' = e.conns
    /\ last' = Invocation(req, e)
    /\ UNCHANGED <<links, filenames>>

ListFiles ==
    /\ Apply(Request("list_files", <<>>, <<>>, "", NoQuery), list_files)
    /\ UNCHANGED chain

ReadFile ==
    \E filename \in filenames, installed \in BOOLEAN :
        /\ Apply(Request("read_file", filename, <<>>, "", NoQuery),
                 read_file(filename, installed))
        /\ UNCHANGED chain

\* the text the round trip expects of a name: set by a successful overwrite,
\* extended by a successful append to the same name, dropped otherwise
Chained(filename, content, mode, e) ==
    IF e.out.class # "Wrote" THEN NoChain
    ELSE IF mode # "a" THEN [on |-> TRUE, name |-> filename, text |-> content]
    ELSE IF chain.on /\ chain.name = filename
         THEN [chain EXCEPT !.text = @ \o content]
         ELSE NoChain

WriteToFile ==
    \E filename \in filenames, content \in Contents, mode \in Modes :
        LET e == write_to_file(filename, content, mode)
        IN  /\ \A q \in DOMAIN e.fs : Len(e.fs[q].s) <= MaxFile
            /\ Apply(Request("write_to_file", filename, content, mode, NoQuery), e)
            /\ chain' = Chained(filename, content, mode, e)

DeleteFile ==
    \E filename \in filenames :
        /\ Apply(Request("delete_file", filename, <<>>, "", NoQuery),
                 delete_file(filename))
        /\ chain' = NoChain

CreateSqlDb ==
    \E filename \in filenames :
        /\ Apply(Request("create_sql_db", filename, <<>>, "", NoQuery),
                 create_sql_db(filename))
        /\ chain' = NoChain

InspectSqlDb ==
    \E filename \in filenames, reclaimed \in BOOLEAN :
        /\ Apply(Request("inspect_sql_db", filename, <<>>, "", NoQuery),
                 inspect_sql_db(filename, reclaimed))
        /\ UNCHANGED chain

RunSqlQuery ==
    \E filename \in filenames, query \in Queries :
        /\ Apply(Request("run_sql_query", filename, <<>>, "", query),
                 run_sql_query(filename, query))
        /\ chain' = NoChain

Next ==
    \/ ListFiles
    \/ ReadFile
    \/ WriteToFile
    \/ DeleteFile
    \/ CreateSqlDb
    \/ InspectSqlDb
    \/ RunSqlQuery

Spec == Init /\ [][Next]_vars

(* ---------------------------------------------------------------------- *)
(* Properties                                                              *)
(* ---------------------------------------------------------------------- *)
\* p is the sandbox root or a descendant of it
Inside(p) ==
    Len(p) >= Len(TARGET_FOLDER) /\ SubSeq(p, 1, Len(TARGET_FOLDER)) = TARGET_FOLDER

OutsideUntouched == \A q \in DOMAIN Outside : q \in DOMAIN fs /\ fs[q] = Outside[q]

\* C1: every path an invocation operated on is the sandbox root or a
\* descendant of it, and the files outside the sandbox are as they were:
\* none read, created, modified or deleted.
C1_Confinement ==
    /\ last.touched => Inside(last.path)
    /\ OutsideUntouched

TextKind(path) ==
    Lower(Suffix(path)) \notin {<<".", "p", "d", "f">>, <<".", "d", "o", "c", "x">>}

\* C2: a read_file of a name that follows a successful overwrite of that name,
\* and any successful appends to it, returns exactly the text written: X, or
\* the concatenation XY.  Stated for the names read as plain text, in a
\* sandbox that holds no symbolic link.
C2_RoundTrip ==
    (last.op = "read_file" /\ chain.on /\ chain.name = last.name
        /\ TextKind(last.path) /\ links = NoLinks)
    => last.out = ReturnText("Content", chain.text)

\* C5: no connection an invocation opened is still open once it has returned.
\* Stated for a sandbox that holds no symbolic link.
C5_ConnectionsClosed == links = NoLinks => conns = {}

\* C7: every invocation ends by returning a text result; no fault raised in a
\* lower layer leaves the tool function.
C7_TotalFacade == last.out.kind = "return"

\* a fault was raised below the tool and came back as its text result
C7_Witness ==
    /\ last.op = "inspect_sql_db"
    /\ last.out = ReturnText("Error", <<"NotADatabase">>)

\* the step is an invocation of the tool
Invoked(op) == last'.op = op

\* the resolution of the invoked name
Target == _get_safe_path(last'.name)

\* every file but the target is as it was
OthersKept(path) ==
    /\ DOMAIN fs' \ {path} = DOMAIN fs \ {path}
    /\ \A q \in DOMAIN fs \ {path} : fs'[q] = fs[q]

Guarded(sp) ==
    /\ sp.ok
    /\ Exists(sp.path)
    /\ Lower(Suffix(sp.path)) \in GuardedSuffixes

\* the write took place: the target holds the content given, after what it
\* held when appending to text, and nothing else changed
Performed(path) ==
    /\ last'.out.class = "Wrote"
    /\ path \in DOMAIN fs'
    /\ last'.mode = "w" => fs'[path] = Text(last'.content)
    /\ (last'.mode = "a" /\ path \notin DOMAIN fs) => fs'[path] = Text(last'.content)
    /\ (last'.mode = "a" /\ path \in DOMAIN fs /\ fs[path].k = "text")
          => fs'[path] = Text(fs[path].s \o last'.content)
    /\ OthersKept(path)

\* the other cases: all of them, or those whose name resolves to a non-directory
WriteRule(resolving) ==
    Invoked("write_to_file") =>
        LET sp      == Target
            guarded == Guarded(sp)
        IN  /\ last'.out.class = "UnsupportedWrite" <=> guarded
            /\ guarded => fs' = fs
            /\ (~guarded /\ (resolving => sp.ok /\ ~IsDir(sp.path)))
                  => Performed(sp.path)

\* C3 (as amended): write_to_file answers UnsupportedWrite, leaving every file
\* as it was, exactly when the resolved target exists and its lowercase suffix
\* is .pdf, .docx, .db or .sqlite; in every other case in which the name
\* resolves inside the sandbox to something other than a directory, also for
\* a name with such a suffix that does not exist yet, the write takes place.
C3_WriteGuard ==
    [][WriteRule(TRUE)]_vars

\* C3 (as claimed): ... in every other case the write takes place.
C3_Original == [][WriteRule(FALSE)]_vars

\* a text write made x.db, and the next write to it is refused
C3_Witness ==
    /\ last.op = "write_to_file"
    /\ last.out.class = "UnsupportedWrite"
    /\ last.path \in DOMAIN fs
    /\ fs[last.path].k = "text"
    /\ fs[last.path].s # <<>>

CreateRule(scope) ==
    (Invoked("create_sql_db") /\ scope /\ Target.ok /\ Target.path \in DOMAIN fs) =>
        /\ last'.out.class = "AlreadyExists"
        /\ ~last'.opened
        /\ fs' = fs

\* C4 (as amended): create_sql_db of a name ending in .db or .sqlite whose
\* target already exists answers AlreadyExists, opens no connection and
\* leaves every file as it was.
C4_CreateExisting == [][CreateRule(DbSuffix(last'.name))]_vars

\* C4 (as claimed): create_sql_db of any name whose target already exists ...
C4_Original == [][CreateRule(TRUE)]_vars

\* create_sql_db refused on a database that holds rows, which it still holds
C4_Witness ==
    /\ last.op = "create_sql_db"
    /\ last.out.class = "AlreadyExists"
    /\ fs[last.path].k = "db"
    /\ fs[last.path].ids # <<>>

\* C6: run_sql_query on an existing file whose statement raises answers
\* QueryError (not SystemError), leaves no connection open and leaves every
\* file as it was: nothing of the failed statement is committed.
C6_FailedQuery ==
    [][(/\ Invoked("run_sql_query")
        /\ Target.ok
        /\ Target.path \in DOMAIN fs
        /\ ~Execute(fs[Target.path], last'.query).ok)
       => /\ last'.out.class = "QueryError"
          /\ last'.out.class # "SystemError"
          /\ conns' = {}
          /\ fs' = fs]_vars

\* INSERT OR FAIL (1),(2) failed on its second row against a table holding 2:
\* the first row was in the transaction, and the table still holds only 2
C6_Witness ==
    /\ last.op = "run_sql_query"
    /\ last.existed
    /\ last.out.class = "QueryError"
    /\ last.query = Query("INSERT", <<1, 2>>)
    /\ fs[last.path] = Db(<<2>>)

\* C8: delete_file of a name whose resolved target does not exist answers
\* NotFound and leaves every file as it was.
C8_DeleteMissing ==
    [][(Invoked("delete_file") /\ Target.ok /\ ~Exists(Target.path))
       => /\ last'.out.class = "NotFound"
          /\ fs' = fs]_vars

\* A.PDF, there at the start, was deleted, and is now deleted again
C8_Witness ==
    /\ last.op = "delete_file"
    /\ last.out.class = "NotFound"
    /\ last.path = PdfFile
    /\ PdfFile \notin DOMAIN fs

\* the statements that have a result set
Selects == {"SELECT 1", "SELECT id FROM t", "INSERT RETURNING"}

\* what the connection finds at the path
Found(path) == IF path \in DOMAIN fs THEN fs[path] ELSE Empty

\* C9: a statement that executed and has a result set answers with all its
\* rows, or NoResults when there are none; one without a result set answers
\* the number of rows it changed, never rows; either way what it did is in the
\* file when the answer is given.  Stated for a sandbox that holds no
\* symbolic link.
C9_ResultShape ==
    [][(/\ Invoked("run_sql_query")
        /\ links = NoLinks
        /\ Target.ok
        /\ ~IsDir(Target.path)
        /\ Execute(Found(Target.path), last'.query).ok)
       => LET path == Target.path
              old  == Found(path).ids
              new  == fs'[path].ids
              verb == last'.query.verb
              args == last'.query.args
          IN  /\ OthersKept(path)
              /\ verb \in Selects =>
                    /\ last'.out.class \in {"Rows", "NoResults"}
                    /\ last'.out.class = "Rows" =>
                          /\ last'.out.nums # <<>>
                          /\ last'.out.nums = CASE verb = "SELECT 1" -> <<1>>
                                                 [] verb = "INSERT RETURNING" -> args
                                                 [] OTHER -> old
                    /\ last'.out.class = "NoResults" =>
                          verb = "SELECT id FROM t" /\ old = <<>>
                    /\ new = IF verb = "INSERT RETURNING" THEN old \o args ELSE old
              /\ verb \notin Selects =>
                    /\ last'.out.class = "RowsAffected"
                    /\ fs'[path].k = "db"
                    /\ verb = "CREATE TABLE t" =>
                          last'.out.nums = <<0>> /\ new = <<>>
                    /\ verb = "DELETE FROM t" =>
                          last'.out.nums = <<Len(old)>> /\ new = <<>>
                    /\ verb = "INSERT" =>
                          /\ last'.out.nums = <<Len(args)>>
                          /\ new = old \o args]_vars

\* C10: run_sql_query of a name whose resolved target does not exist opens a
\* connection, and the target exists once it has returned, whatever the
\* statement's outcome; read_file, list_files and inspect_sql_db add no file.
C10_Materializes ==
    [][/\ (Invoked("run_sql_query") /\ Target.ok /\ ~Exists(Target.path))
          => /\ last'.opened
             /\ Target.path \in DOMAIN fs'
       /\ (Invoked("read_file") \/ Invoked("list_files") \/ Invoked("inspect_sql_db"))
          => DOMAIN fs' = DOMAIN fs]_vars

\* the statement failed, and the file that was not there now is
C10_Witness ==
    /\ last.op = "run_sql_query"
    /\ ~last.existed
    /\ last.touched
    /\ last.out.class = "QueryError"
    /\ last.path \in DOMAIN fs

====
